---- MODULE Spec2Model ----
(***************************************************************************)
(* Model of addendum/e_ai_summarize/README.py: a script that holds the     *)
(* README text in readme_content, replaces every "{{CODE}}" by three       *)
(* backticks, writes the result to README.md inside a `with open(...)`     *)
(* block and prints a confirmation line.                                   *)
(*                                                                         *)
(* Text is a sequence of Unicode code points (123 = "{", 125 = "}",        *)
(* 96 = "`", 97 = "a", 98 = "b", 120 = "x", 0 = NUL).                      *)
(***************************************************************************)
EXTENDS Integers, Sequences, FiniteSets, TLC

\* ---------------------------------------------------------------- bounds
\* Number of pieces a generated template is built from (render-only runs).
MaxPiecesR == 4
\* Number of pieces a generated template is built from (sequential runs).
MaxPieces == 3
\* Number of pieces a generated template is built from (concurrent runs).
MaxPiecesC == 3
\* Number of times the script is run one after the other.
MaxRuns == 3

\* ------------------------------------------------------ program constants
\* "{{CODE}}", the first argument of replace (line 168).
Placeholder == <<123, 123, 67, 79, 68, 69, 125, 125>>

\* "```", the second argument of replace (line 168).
Delim == <<96, 96, 96>>

\* The argument of print (line 174).
Msg == "README.md has been written successfully."

\* The string literal bound to readme_content (lines 1-165).
ShippedTemplate ==
  <<
     35, 32, 101, 95, 97, 105, 95, 115, 117, 109, 109, 97, 114, 105, 122, 101, 10, 10, 101, 95, 97, 105, 95, 115,
     117, 109, 109, 97, 114, 105, 122, 101, 32, 105, 115, 32, 97, 32, 71, 101, 110, 65, 73, 45, 112, 111, 119, 101,
     114, 101, 100, 32, 82, 117, 115, 116, 32, 115, 111, 117, 114, 99, 101, 32, 99, 111, 100, 101, 32, 115, 117, 109,
     109, 97, 114, 105, 122, 101, 114, 32, 97, 110, 100, 32, 99, 114, 97, 116, 101, 32, 114, 101, 99, 114, 101, 97,
     116, 111, 114, 46, 32, 73, 116, 32, 97, 110, 97, 108, 121, 122, 101, 115, 32, 82, 117, 115, 116, 32, 115, 111,
     117, 114, 99, 101, 32, 102, 105, 108, 101, 115, 32, 116, 111, 32, 112, 114, 111, 118, 105, 100, 101, 32, 99, 111,
     110, 99, 105, 115, 101, 44, 32, 105, 110, 115, 105, 103, 104, 116, 102, 117, 108, 32, 115, 117, 109, 109, 97, 114,
     105, 101, 115, 8212, 105, 110, 99, 108, 117, 100, 105, 110, 103, 32, 107, 101, 121, 32, 102, 117, 110, 99, 116, 105,
     111, 110, 97, 108, 105, 116, 121, 44, 32, 117, 115, 101, 100, 32, 99, 114, 97, 116, 101, 115, 44, 32, 115, 97,
     102, 101, 116, 121, 32, 99, 111, 110, 115, 105, 100, 101, 114, 97, 116, 105, 111, 110, 115, 44, 32, 97, 110, 100,
     32, 102, 105, 108, 101, 32, 111, 112, 101, 114, 97, 116, 105, 111, 110, 115, 46, 32, 65, 100, 100, 105, 116, 105,
     111, 110, 97, 108, 108, 121, 44, 32, 105, 116, 32, 110, 111, 119, 32, 115, 117, 112, 112, 111, 114, 116, 115, 32,
     103, 101, 110, 101, 114, 97, 116, 105, 110, 103, 32, 115, 99, 114, 105, 112, 116, 115, 32, 40, 105, 110, 32, 82,
     117, 115, 116, 32, 111, 114, 32, 80, 121, 116, 104, 111, 110, 41, 32, 116, 111, 32, 114, 101, 99, 114, 101, 97,
     116, 101, 32, 97, 32, 99, 114, 97, 116, 101, 32, 102, 114, 111, 109, 32, 97, 32, 103, 105, 118, 101, 110, 32,
     115, 111, 117, 114, 99, 101, 32, 102, 111, 108, 100, 101, 114, 46, 10, 10, 45, 45, 45, 10, 10, 35, 35, 32,
     70, 101, 97, 116, 117, 114, 101, 115, 10, 10, 45, 32, 42, 42, 83, 111, 117, 114, 99, 101, 32, 67, 111, 100,
     101, 32, 65, 110, 97, 108, 121, 115, 105, 115, 58, 42, 42, 10, 32, 32, 45, 32, 83, 117, 109, 109, 97, 114,
     105, 122, 101, 115, 32, 116, 104, 101, 32, 112, 114, 105, 109, 97, 114, 121, 32, 102, 117, 110, 99, 116, 105, 111,
     110, 97, 108, 105, 116, 121, 32, 111, 102, 32, 82, 117, 115, 116, 32, 115, 111, 117, 114, 99, 101, 32, 99, 111,
     100, 101, 46, 10, 32, 32, 45, 32, 73, 100, 101, 110, 116, 105, 102, 105, 101, 115, 32, 119, 104, 105, 99, 104,
     32, 99, 114, 97, 116, 101, 115, 32, 97, 114, 101, 32, 117, 115, 101, 100, 32, 119, 105, 116, 104, 105, 110, 32,
     116, 104, 101, 32, 99, 111, 100, 101, 46, 10, 32, 32, 45, 32, 65, 115, 115, 101, 115, 115, 101, 115, 32, 99,
     111, 100, 101, 32, 115, 97, 102, 101, 116, 121, 32, 119, 105, 116, 104, 32, 97, 32, 96, 83, 65, 70, 69, 95,
     84, 79, 95, 82, 85, 78, 58, 32, 89, 69, 83, 47, 78, 79, 96, 32, 118, 101, 114, 100, 105, 99, 116, 32,
     97, 110, 100, 32, 101, 120, 112, 108, 97, 110, 97, 116, 105, 111, 110, 46, 10, 32, 32, 45, 32, 68, 101, 116,
     101, 99, 116, 115, 32, 102, 105, 108, 101, 32, 111, 112, 101, 114, 97, 116, 105, 111, 110, 115, 32, 97, 110, 100,
     32, 112, 114, 111, 118, 105, 100, 101, 115, 32, 97, 32, 96, 70, 73, 76, 69, 95, 79, 80, 69, 82, 65, 84,
     73, 79, 78, 83, 58, 32, 89, 69, 83, 47, 78, 79, 96, 32, 118, 101, 114, 100, 105, 99, 116, 32, 119, 105,
     116, 104, 32, 100, 101, 116, 97, 105, 108, 115, 46, 10, 10, 45, 32, 42, 42, 73, 110, 116, 101, 114, 97, 99,
     116, 105, 118, 101, 32, 70, 111, 108, 108, 111, 119, 45, 117, 112, 32, 77, 111, 100, 101, 58, 42, 42, 10, 32,
     32, 45, 32, 83, 117, 112, 112, 111, 114, 116, 115, 32, 105, 110, 116, 101, 114, 97, 99, 116, 105, 118, 101, 32,
     113, 117, 101, 115, 116, 105, 111, 110, 105, 110, 103, 32, 102, 111, 114, 32, 100, 101, 101, 112, 101, 114, 32, 105,
     110, 115, 105, 103, 104, 116, 115, 32, 105, 110, 116, 111, 32, 116, 104, 101, 32, 99, 111, 100, 101, 32, 97, 110,
     97, 108, 121, 115, 105, 115, 46, 10, 32, 32, 45, 32, 79, 102, 102, 101, 114, 115, 32, 97, 32, 115, 105, 110,
     103, 108, 101, 32, 102, 111, 108, 108, 111, 119, 45, 117, 112, 32, 113, 117, 101, 115, 116, 105, 111, 110, 32, 111,
     112, 116, 105, 111, 110, 32, 102, 111, 114, 32, 113, 117, 105, 99, 107, 32, 113, 117, 101, 114, 105, 101, 115, 46,
     10, 10, 45, 32, 42, 42, 79, 117, 116, 112, 117, 116, 32, 70, 108, 101, 120, 105, 98, 105, 108, 105, 116, 121,
     58, 42, 42, 10, 32, 32, 45, 32, 67, 104, 111, 111, 115, 101, 32, 98, 101, 116, 119, 101, 101, 110, 32, 115,
     116, 114, 101, 97, 109, 105, 110, 103, 32, 97, 110, 100, 32, 110, 111, 110, 45, 115, 116, 114, 101, 97, 109, 105,
     110, 103, 32, 111, 117, 116, 112, 117, 116, 32, 102, 111, 114, 32, 115, 117, 109, 109, 97, 114, 105, 122, 97, 116,
     105, 111, 110, 46, 10, 10, 45, 32, 42, 42, 67, 114, 97, 116, 101, 32, 82, 101, 99, 114, 101, 97, 116, 105,
     111, 110, 58, 42, 42, 10, 32, 32, 45, 32, 42, 42, 71, 101, 110, 101, 114, 97, 116, 101, 32, 97, 32, 80,
     121, 116, 104, 111, 110, 32, 115, 99, 114, 105, 112, 116, 58, 42, 42, 32, 67, 114, 101, 97, 116, 101, 115, 32,
     97, 32, 115, 99, 114, 105, 112, 116, 32, 116, 104, 97, 116, 32, 114, 101, 99, 114, 101, 97, 116, 101, 115, 32,
     116, 104, 101, 32, 99, 114, 97, 116, 101, 32, 115, 116, 114, 117, 99, 116, 117, 114, 101, 32, 102, 114, 111, 109,
     32, 116, 104, 101, 32, 112, 114, 111, 118, 105, 100, 101, 100, 32, 115, 111, 117, 114, 99, 101, 32, 102, 111, 108,
     100, 101, 114, 46, 10, 32, 32, 45, 32, 42, 42, 71, 101, 110, 101, 114, 97, 116, 101, 32, 97, 32, 82, 117,
     115, 116, 32, 115, 99, 114, 105, 112, 116, 58, 42, 42, 32, 67, 114, 101, 97, 116, 101, 115, 32, 97, 32, 82,
     117, 115, 116, 32, 115, 99, 114, 105, 112, 116, 32, 116, 111, 32, 114, 101, 99, 114, 101, 97, 116, 101, 32, 116,
     104, 101, 32, 99, 114, 97, 116, 101, 46, 10, 32, 32, 45, 32, 79, 112, 116, 105, 111, 110, 32, 116, 111, 32,
     112, 114, 111, 99, 101, 115, 115, 32, 111, 110, 108, 121, 32, 116, 104, 101, 32, 96, 115, 114, 99, 96, 32, 115,
     117, 98, 102, 111, 108, 100, 101, 114, 32, 119, 104, 101, 110, 32, 114, 101, 99, 114, 101, 97, 116, 105, 110, 103,
     32, 116, 104, 101, 32, 99, 114, 97, 116, 101, 46, 10, 10, 45, 45, 45, 10, 10, 35, 35, 32, 73, 110, 115,
     116, 97, 108, 108, 97, 116, 105, 111, 110, 10, 10, 65, 100, 100, 32, 101, 95, 97, 105, 95, 115, 117, 109, 109,
     97, 114, 105, 122, 101, 32, 97, 115, 32, 97, 32, 100, 101, 112, 101, 110, 100, 101, 110, 99, 121, 32, 105, 110,
     32, 121, 111, 117, 114, 32, 96, 67, 97, 114, 103, 111, 46, 116, 111, 109, 108, 96, 46, 10, 10, 45, 45, 45,
     10, 10, 35, 35, 32, 85, 115, 97, 103, 101, 10, 10, 35, 35, 35, 32, 67, 111, 109, 109, 97, 110, 100, 45,
     76, 105, 110, 101, 32, 73, 110, 116, 101, 114, 102, 97, 99, 101, 10, 10, 84, 104, 101, 32, 116, 111, 111, 108,
     32, 110, 111, 119, 32, 111, 102, 102, 101, 114, 115, 32, 116, 119, 111, 32, 109, 97, 105, 110, 32, 109, 111, 100,
     101, 115, 58, 32, 42, 42, 83, 117, 109, 109, 97, 114, 105, 122, 97, 116, 105, 111, 110, 42, 42, 32, 97, 110,
     100, 32, 42, 42, 67, 114, 97, 116, 101, 32, 82, 101, 99, 114, 101, 97, 116, 105, 111, 110, 42, 42, 46, 10,
     10, 35, 35, 35, 35, 32, 83, 117, 109, 109, 97, 114, 105, 122, 97, 116, 105, 111, 110, 32, 77, 111, 100, 101,
     10, 10, 45, 32, 42, 42, 83, 117, 109, 109, 97, 114, 105, 122, 101, 32, 97, 32, 82, 117, 115, 116, 32, 115,
     111, 117, 114, 99, 101, 32, 102, 105, 108, 101, 58, 42, 42, 10, 10, 32, 32, 123, 123, 67, 79, 68, 69, 125,
     125, 98, 97, 115, 104, 10, 32, 32, 99, 97, 114, 103, 111, 32, 114, 117, 110, 32, 45, 45, 32, 112, 97, 116,
     104, 47, 116, 111, 47, 115, 111, 117, 114, 99, 101, 95, 102, 105, 108, 101, 46, 114, 115, 10, 32, 32, 123, 123,
     67, 79, 68, 69, 125, 125, 10, 10, 45, 32, 42, 42, 73, 110, 116, 101, 114, 97, 99, 116, 105, 118, 101, 32,
     70, 111, 108, 108, 111, 119, 45, 117, 112, 32, 77, 111, 100, 101, 58, 42, 42, 10, 10, 32, 32, 82, 117, 110,
     32, 105, 110, 32, 105, 110, 116, 101, 114, 97, 99, 116, 105, 118, 101, 32, 109, 111, 100, 101, 32, 116, 111, 32,
     97, 115, 107, 32, 102, 111, 108, 108, 111, 119, 45, 117, 112, 32, 113, 117, 101, 115, 116, 105, 111, 110, 115, 32,
     97, 102, 116, 101, 114, 32, 116, 104, 101, 32, 115, 117, 109, 109, 97, 114, 121, 32, 105, 115, 32, 103, 101, 110,
     101, 114, 97, 116, 101, 100, 58, 10, 10, 32, 32, 123, 123, 67, 79, 68, 69, 125, 125, 98, 97, 115, 104, 10,
     32, 32, 99, 97, 114, 103, 111, 32, 114, 117, 110, 32, 45, 45, 32, 112, 97, 116, 104, 47, 116, 111, 47, 115,
     111, 117, 114, 99, 101, 95, 102, 105, 108, 101, 46, 114, 115, 32, 45, 45, 115, 116, 100, 105, 110, 10, 32, 32,
     123, 123, 67, 79, 68, 69, 125, 125, 10, 10, 45, 32, 42, 42, 83, 105, 110, 103, 108, 101, 32, 70, 111, 108,
     108, 111, 119, 45, 117, 112, 32, 81, 117, 101, 115, 116, 105, 111, 110, 58, 42, 42, 10, 10, 32, 32, 80, 114,
     111, 118, 105, 100, 101, 32, 97, 32, 115, 105, 110, 103, 108, 101, 32, 102, 111, 108, 108, 111, 119, 45, 117, 112,
     32, 113, 117, 101, 115, 116, 105, 111, 110, 32, 119, 105, 116, 104, 32, 116, 104, 101, 32, 96, 45, 113, 96, 32,
     111, 112, 116, 105, 111, 110, 58, 10, 10, 32, 32, 123, 123, 67, 79, 68, 69, 125, 125, 98, 97, 115, 104, 10,
     32, 32, 99, 97, 114, 103, 111, 32, 114, 117, 110, 32, 45, 45, 32, 112, 97, 116, 104, 47, 116, 111, 47, 115,
     111, 117, 114, 99, 101, 95, 102, 105, 108, 101, 46, 114, 115, 32, 45, 113, 32, 34, 68, 111, 101, 115, 32, 116,
     104, 105, 115, 32, 99, 111, 100, 101, 32, 104, 97, 110, 100, 108, 101, 32, 101, 114, 114, 111, 114, 115, 32, 112,
     114, 111, 112, 101, 114, 108, 121, 63, 34, 10, 32, 32, 123, 123, 67, 79, 68, 69, 125, 125, 10, 10, 45, 32,
     42, 42, 69, 110, 97, 98, 108, 101, 32, 83, 116, 114, 101, 97, 109, 105, 110, 103, 32, 77, 111, 100, 101, 58,
     42, 42, 10, 10, 32, 32, 85, 115, 101, 32, 116, 104, 101, 32, 96, 45, 45, 115, 116, 114, 101, 97, 109, 105,
     110, 103, 96, 32, 102, 108, 97, 103, 32, 102, 111, 114, 32, 115, 116, 114, 101, 97, 109, 105, 110, 103, 32, 111,
     117, 116, 112, 117, 116, 58, 10, 10, 32, 32, 123, 123, 67, 79, 68, 69, 125, 125, 98, 97, 115, 104, 10, 32,
     32, 99, 97, 114, 103, 111, 32, 114, 117, 110, 32, 45, 45, 32, 112, 97, 116, 104, 47, 116, 111, 47, 115, 111,
     117, 114, 99, 101, 95, 102, 105, 108, 101, 46, 114, 115, 32, 45, 45, 115, 116, 114, 101, 97, 109, 105, 110, 103,
     10, 32, 32, 123, 123, 67, 79, 68, 69, 125, 125, 10, 10, 73, 102, 32, 110, 111, 32, 102, 105, 108, 101, 32,
     105, 115, 32, 115, 112, 101, 99, 105, 102, 105, 101, 100, 44, 32, 101, 95, 97, 105, 95, 115, 117, 109, 109, 97,
     114, 105, 122, 101, 32, 119, 105, 108, 108, 32, 100, 101, 102, 97, 117, 108, 116, 32, 116, 111, 32, 97, 110, 97,
     108, 121, 122, 105, 110, 103, 32, 105, 116, 115, 32, 111, 119, 110, 32, 115, 111, 117, 114, 99, 101, 32, 99, 111,
     100, 101, 32, 97, 115, 32, 97, 32, 100, 101, 109, 111, 110, 115, 116, 114, 97, 116, 105, 111, 110, 46, 10, 10,
     35, 35, 35, 35, 32, 67, 114, 97, 116, 101, 32, 82, 101, 99, 114, 101, 97, 116, 105, 111, 110, 32, 77, 111,
     100, 101, 10, 10, 45, 32, 42, 42, 71, 101, 110, 101, 114, 97, 116, 101, 32, 97, 32, 82, 117, 115, 116, 32,
     115, 99, 114, 105, 112, 116, 32, 116, 111, 32, 114, 101, 99, 114, 101, 97, 116, 101, 32, 116, 104, 101, 32, 99,
     114, 97, 116, 101, 58, 42, 42, 10, 10, 32, 32, 85, 115, 101, 32, 116, 104, 101, 32, 96, 45, 45, 114, 101,
     99, 114, 101, 97, 116, 101, 45, 99, 114, 97, 116, 101, 45, 114, 115, 96, 32, 102, 108, 97, 103, 46, 32, 79,
     112, 116, 105, 111, 110, 97, 108, 108, 121, 44, 32, 112, 114, 111, 118, 105, 100, 101, 32, 97, 32, 115, 111, 117,
     114, 99, 101, 32, 102, 111, 108, 100, 101, 114, 32, 40, 100, 101, 102, 97, 117, 108, 116, 115, 32, 116, 111, 32,
     116, 104, 101, 32, 99, 117, 114, 114, 101, 110, 116, 32, 100, 105, 114, 101, 99, 116, 111, 114, 121, 41, 32, 97,
     110, 100, 32, 97, 100, 100, 32, 96, 45, 45, 115, 114, 99, 45, 111, 110, 108, 121, 96, 32, 116, 111, 32, 112,
     114, 111, 99, 101, 115, 115, 32, 111, 110, 108, 121, 32, 116, 104, 101, 32, 96, 115, 114, 99, 96, 32, 115, 117,
     98, 102, 111, 108, 100, 101, 114, 46, 10, 10, 32, 32, 123, 123, 67, 79, 68, 69, 125, 125, 98, 97, 115, 104,
     10, 32, 32, 99, 97, 114, 103, 111, 32, 114, 117, 110, 32, 45, 45, 32, 112, 97, 116, 104, 47, 116, 111, 47,
     115, 111, 117, 114, 99, 101, 95, 102, 111, 108, 100, 101, 114, 32, 45, 45, 114, 101, 99, 114, 101, 97, 116, 101,
     45, 99, 114, 97, 116, 101, 45, 114, 115, 32, 91, 45, 45, 115, 114, 99, 45, 111, 110, 108, 121, 93, 10, 32,
     32, 123, 123, 67, 79, 68, 69, 125, 125, 10, 10, 45, 32, 42, 42, 71, 101, 110, 101, 114, 97, 116, 101, 32,
     97, 32, 80, 121, 116, 104, 111, 110, 32, 115, 99, 114, 105, 112, 116, 32, 116, 111, 32, 114, 101, 99, 114, 101,
     97, 116, 101, 32, 116, 104, 101, 32, 99, 114, 97, 116, 101, 58, 42, 42, 10, 10, 32, 32, 85, 115, 101, 32,
     116, 104, 101, 32, 96, 45, 45, 114, 101, 99, 114, 101, 97, 116, 101, 45, 99, 114, 97, 116, 101, 45, 112, 121,
     96, 32, 102, 108, 97, 103, 46, 32, 83, 105, 109, 105, 108, 97, 114, 32, 116, 111, 32, 116, 104, 101, 32, 82,
     117, 115, 116, 32, 109, 111, 100, 101, 44, 32, 121, 111, 117, 32, 99, 97, 110, 32, 115, 112, 101, 99, 105, 102,
     121, 32, 97, 32, 115, 111, 117, 114, 99, 101, 32, 102, 111, 108, 100, 101, 114, 32, 97, 110, 100, 32, 117, 115,
     101, 32, 96, 45, 45, 115, 114, 99, 45, 111, 110, 108, 121, 96, 32, 105, 102, 32, 110, 101, 101, 100, 101, 100,
     46, 10, 10, 32, 32, 123, 123, 67, 79, 68, 69, 125, 125, 98, 97, 115, 104, 10, 32, 32, 99, 97, 114, 103,
     111, 32, 114, 117, 110, 32, 45, 45, 32, 112, 97, 116, 104, 47, 116, 111, 47, 115, 111, 117, 114, 99, 101, 95,
     102, 111, 108, 100, 101, 114, 32, 45, 45, 114, 101, 99, 114, 101, 97, 116, 101, 45, 99, 114, 97, 116, 101, 45,
     112, 121, 32, 91, 45, 45, 115, 114, 99, 45, 111, 110, 108, 121, 93, 10, 32, 32, 123, 123, 67, 79, 68, 69,
     125, 125, 10, 10, 35, 35, 35, 32, 80, 114, 111, 103, 114, 97, 109, 109, 97, 116, 105, 99, 32, 85, 115, 97,
     103, 101, 10, 10, 89, 111, 117, 32, 99, 97, 110, 32, 97, 108, 115, 111, 32, 105, 110, 116, 101, 103, 114, 97,
     116, 101, 32, 101, 95, 97, 105, 95, 115, 117, 109, 109, 97, 114, 105, 122, 101, 32, 105, 110, 116, 111, 32, 121,
     111, 117, 114, 32, 111, 119, 110, 32, 82, 117, 115, 116, 32, 112, 114, 111, 106, 101, 99, 116, 115, 46, 32, 70,
     111, 114, 32, 101, 120, 97, 109, 112, 108, 101, 58, 10, 10, 123, 123, 67, 79, 68, 69, 125, 125, 114, 117, 115,
     116, 10, 117, 115, 101, 32, 101, 95, 97, 105, 95, 115, 117, 109, 109, 97, 114, 105, 122, 101, 58, 58, 115, 117,
     109, 109, 97, 114, 105, 122, 101, 114, 58, 58, 123, 115, 101, 108, 102, 44, 32, 67, 104, 97, 116, 83, 101, 115,
     115, 105, 111, 110, 125, 59, 10, 10, 35, 91, 116, 111, 107, 105, 111, 58, 58, 109, 97, 105, 110, 93, 10, 97,
     115, 121, 110, 99, 32, 102, 110, 32, 109, 97, 105, 110, 40, 41, 32, 45, 62, 32, 82, 101, 115, 117, 108, 116,
     60, 40, 41, 44, 32, 66, 111, 120, 60, 100, 121, 110, 32, 115, 116, 100, 58, 58, 101, 114, 114, 111, 114, 58,
     58, 69, 114, 114, 111, 114, 62, 62, 32, 123, 10, 32, 32, 32, 32, 47, 47, 32, 83, 117, 109, 109, 97, 114,
     105, 122, 101, 32, 97, 32, 115, 111, 117, 114, 99, 101, 32, 102, 105, 108, 101, 10, 32, 32, 32, 32, 108, 101,
     116, 32, 40, 115, 117, 109, 109, 97, 114, 121, 44, 32, 109, 117, 116, 32, 115, 101, 115, 115, 105, 111, 110, 41,
     32, 61, 32, 115, 117, 109, 109, 97, 114, 105, 122, 101, 114, 58, 58, 115, 117, 109, 109, 97, 114, 105, 122, 101,
     95, 115, 111, 117, 114, 99, 101, 95, 115, 101, 115, 115, 105, 111, 110, 40, 83, 111, 109, 101, 40, 34, 112, 97,
     116, 104, 47, 116, 111, 47, 115, 111, 117, 114, 99, 101, 95, 102, 105, 108, 101, 46, 114, 115, 34, 41, 44, 32,
     116, 114, 117, 101, 41, 46, 97, 119, 97, 105, 116, 63, 59, 10, 32, 32, 32, 32, 112, 114, 105, 110, 116, 108,
     110, 33, 40, 34, 83, 117, 109, 109, 97, 114, 121, 58, 10, 123, 125, 34, 44, 32, 115, 117, 109, 109, 97, 114,
     121, 41, 59, 10, 10, 32, 32, 32, 32, 47, 47, 32, 79, 112, 116, 105, 111, 110, 97, 108, 108, 121, 44, 32,
     97, 115, 107, 32, 97, 32, 102, 111, 108, 108, 111, 119, 45, 117, 112, 32, 113, 117, 101, 115, 116, 105, 111, 110,
     10, 32, 32, 32, 32, 108, 101, 116, 32, 102, 111, 108, 108, 111, 119, 117, 112, 32, 61, 32, 115, 101, 115, 115,
     105, 111, 110, 46, 97, 115, 107, 40, 34, 67, 97, 110, 32, 121, 111, 117, 32, 101, 108, 97, 98, 111, 114, 97,
     116, 101, 32, 111, 110, 32, 116, 104, 101, 32, 101, 114, 114, 111, 114, 32, 104, 97, 110, 100, 108, 105, 110, 103,
     63, 34, 41, 46, 97, 119, 97, 105, 116, 63, 59, 10, 32, 32, 32, 32, 112, 114, 105, 110, 116, 108, 110, 33,
     40, 34, 70, 111, 108, 108, 111, 119, 45, 117, 112, 32, 65, 110, 115, 119, 101, 114, 58, 10, 123, 125, 34, 44,
     32, 102, 111, 108, 108, 111, 119, 117, 112, 41, 59, 10, 10, 32, 32, 32, 32, 79, 107, 40, 40, 41, 41, 10,
     125, 10, 123, 123, 67, 79, 68, 69, 125, 125, 10, 10, 45, 45, 45, 10, 10, 35, 35, 32, 72, 111, 119, 32,
     73, 116, 32, 87, 111, 114, 107, 115, 10, 10, 49, 46, 32, 42, 42, 80, 97, 114, 115, 105, 110, 103, 32, 73,
     110, 112, 117, 116, 58, 42, 42, 10, 32, 32, 32, 45, 32, 82, 101, 97, 100, 115, 32, 116, 104, 101, 32, 112,
     114, 111, 118, 105, 100, 101, 100, 32, 82, 117, 115, 116, 32, 115, 111, 117, 114, 99, 101, 32, 102, 105, 108, 101,
     32, 111, 114, 44, 32, 105, 102, 32, 110, 111, 32, 102, 105, 108, 101, 32, 105, 115, 32, 103, 105, 118, 101, 110,
     44, 32, 100, 101, 102, 97, 117, 108, 116, 115, 32, 116, 111, 32, 105, 116, 115, 32, 111, 119, 110, 32, 115, 111,
     117, 114, 99, 101, 32, 99, 111, 100, 101, 46, 10, 32, 32, 32, 45, 32, 87, 104, 101, 110, 32, 105, 110, 32,
     99, 114, 97, 116, 101, 32, 114, 101, 99, 114, 101, 97, 116, 105, 111, 110, 32, 109, 111, 100, 101, 44, 32, 112,
     114, 111, 99, 101, 115, 115, 101, 115, 32, 116, 104, 101, 32, 112, 114, 111, 118, 105, 100, 101, 100, 32, 115, 111,
     117, 114, 99, 101, 32, 102, 111, 108, 100, 101, 114, 32, 40, 111, 114, 32, 100, 101, 102, 97, 117, 108, 116, 115,
     32, 116, 111, 32, 116, 104, 101, 32, 99, 117, 114, 114, 101, 110, 116, 32, 100, 105, 114, 101, 99, 116, 111, 114,
     121, 41, 44, 32, 111, 112, 116, 105, 111, 110, 97, 108, 108, 121, 32, 108, 105, 109, 105, 116, 105, 110, 103, 32,
     116, 111, 32, 116, 104, 101, 32, 96, 115, 114, 99, 96, 32, 115, 117, 98, 102, 111, 108, 100, 101, 114, 46, 10,
     10, 50, 46, 32, 42, 42, 80, 114, 111, 109, 112, 116, 32, 67, 111, 110, 115, 116, 114, 117, 99, 116, 105, 111,
     110, 58, 42, 42, 10, 32, 32, 32, 45, 32, 67, 111, 110, 115, 116, 114, 117, 99, 116, 115, 32, 97, 32, 100,
     101, 116, 97, 105, 108, 101, 100, 32, 112, 114, 111, 109, 112, 116, 32, 102, 111, 114, 32, 97, 110, 97, 108, 121,
     122, 105, 110, 103, 32, 116, 104, 101, 32, 99, 111, 100, 101, 39, 115, 32, 109, 97, 105, 110, 32, 102, 117, 110,
     99, 116, 105, 111, 110, 97, 108, 105, 116, 121, 44, 32, 117, 115, 101, 100, 32, 99, 114, 97, 116, 101, 115, 44,
     32, 115, 97, 102, 101, 116, 121, 44, 32, 102, 105, 108, 101, 32, 111, 112, 101, 114, 97, 116, 105, 111, 110, 115,
     44, 32, 97, 110, 100, 32, 97, 110, 121, 32, 108, 105, 109, 105, 116, 97, 116, 105, 111, 110, 115, 46, 10, 10,
     51, 46, 32, 42, 42, 71, 101, 110, 65, 73, 45, 80, 111, 119, 101, 114, 101, 100, 32, 67, 104, 97, 116, 32,
     83, 101, 115, 115, 105, 111, 110, 58, 42, 42, 10, 32, 32, 32, 45, 32, 76, 101, 118, 101, 114, 97, 103, 101,
     115, 32, 97, 32, 71, 101, 110, 65, 73, 32, 109, 111, 100, 101, 108, 32, 40, 101, 46, 103, 46, 44, 32, 34,
     103, 112, 116, 45, 52, 111, 45, 109, 105, 110, 105, 34, 41, 32, 116, 111, 32, 103, 101, 110, 101, 114, 97, 116,
     101, 32, 116, 104, 101, 32, 115, 117, 109, 109, 97, 114, 121, 32, 111, 114, 32, 115, 99, 114, 105, 112, 116, 44,
     32, 119, 105, 116, 104, 32, 115, 117, 112, 112, 111, 114, 116, 32, 102, 111, 114, 32, 98, 111, 116, 104, 32, 115,
     116, 114, 101, 97, 109, 105, 110, 103, 32, 97, 110, 100, 32, 110, 111, 110, 45, 115, 116, 114, 101, 97, 109, 105,
     110, 103, 32, 111, 117, 116, 112, 117, 116, 115, 46, 10, 10, 52, 46, 32, 42, 42, 73, 110, 116, 101, 114, 97,
     99, 116, 105, 118, 101, 32, 81, 117, 101, 114, 121, 105, 110, 103, 58, 42, 42, 10, 32, 32, 32, 45, 32, 65,
     102, 116, 101, 114, 32, 116, 104, 101, 32, 105, 110, 105, 116, 105, 97, 108, 32, 115, 117, 109, 109, 97, 114, 121,
     44, 32, 117, 115, 101, 114, 115, 32, 99, 97, 110, 32, 101, 110, 116, 101, 114, 32, 105, 110, 116, 101, 114, 97,
     99, 116, 105, 118, 101, 32, 109, 111, 100, 101, 32, 111, 114, 32, 97, 115, 107, 32, 115, 105, 110, 103, 108, 101,
     32, 102, 111, 108, 108, 111, 119, 45, 117, 112, 32, 113, 117, 101, 115, 116, 105, 111, 110, 115, 32, 102, 111, 114,
     32, 102, 117, 114, 116, 104, 101, 114, 32, 105, 110, 115, 105, 103, 104, 116, 115, 46, 10, 10, 53, 46, 32, 42,
     42, 67, 114, 97, 116, 101, 32, 82, 101, 99, 114, 101, 97, 116, 105, 111, 110, 58, 42, 42, 10, 32, 32, 32,
     45, 32, 68, 101, 112, 101, 110, 100, 105, 110, 103, 32, 111, 110, 32, 116, 104, 101, 32, 102, 108, 97, 103, 115,
     32, 112, 114, 111, 118, 105, 100, 101, 100, 44, 32, 116, 104, 101, 32, 116, 111, 111, 108, 32, 103, 101, 110, 101,
     114, 97, 116, 101, 115, 32, 101, 105, 116, 104, 101, 114, 32, 97, 32, 80, 121, 116, 104, 111, 110, 32, 111, 114,
     32, 82, 117, 115, 116, 32, 115, 99, 114, 105, 112, 116, 32, 116, 104, 97, 116, 32, 114, 101, 99, 114, 101, 97,
     116, 101, 115, 32, 116, 104, 101, 32, 99, 114, 97, 116, 101, 32, 115, 116, 114, 117, 99, 116, 117, 114, 101, 46,
     10, 10, 45, 45, 45, 10, 10, 35, 35, 32, 68, 101, 112, 101, 110, 100, 101, 110, 99, 105, 101, 115, 10, 10,
     45, 32, 42, 42, 82, 117, 115, 116, 32, 65, 115, 121, 110, 99, 32, 82, 117, 110, 116, 105, 109, 101, 58, 42,
     42, 32, 85, 115, 101, 115, 32, 91, 84, 111, 107, 105, 111, 93, 40, 104, 116, 116, 112, 115, 58, 47, 47, 116,
     111, 107, 105, 111, 46, 114, 115, 47, 41, 32, 102, 111, 114, 32, 97, 115, 121, 110, 99, 104, 114, 111, 110, 111,
     117, 115, 32, 111, 112, 101, 114, 97, 116, 105, 111, 110, 115, 46, 10, 45, 32, 42, 42, 67, 111, 109, 109, 97,
     110, 100, 45, 76, 105, 110, 101, 32, 80, 97, 114, 115, 105, 110, 103, 58, 42, 42, 32, 85, 115, 101, 115, 32,
     91, 99, 108, 97, 112, 93, 40, 104, 116, 116, 112, 115, 58, 47, 47, 103, 105, 116, 104, 117, 98, 46, 99, 111,
     109, 47, 99, 108, 97, 112, 45, 114, 115, 47, 99, 108, 97, 112, 41, 32, 102, 111, 114, 32, 104, 97, 110, 100,
     108, 105, 110, 103, 32, 99, 111, 109, 109, 97, 110, 100, 45, 108, 105, 110, 101, 32, 97, 114, 103, 117, 109, 101,
     110, 116, 115, 46, 10, 45, 32, 42, 42, 73, 110, 116, 101, 114, 97, 99, 116, 105, 118, 101, 32, 73, 110, 112,
     117, 116, 58, 42, 42, 32, 73, 110, 116, 101, 103, 114, 97, 116, 101, 115, 32, 91, 114, 117, 115, 116, 121, 108,
     105, 110, 101, 93, 40, 104, 116, 116, 112, 115, 58, 47, 47, 103, 105, 116, 104, 117, 98, 46, 99, 111, 109, 47,
     107, 107, 97, 119, 97, 107, 97, 109, 47, 114, 117, 115, 116, 121, 108, 105, 110, 101, 41, 32, 102, 111, 114, 32,
     105, 110, 116, 101, 114, 97, 99, 116, 105, 118, 101, 32, 99, 111, 109, 109, 97, 110, 100, 45, 108, 105, 110, 101,
     32, 105, 110, 112, 117, 116, 46, 10, 45, 32, 42, 42, 76, 111, 103, 103, 105, 110, 103, 58, 42, 42, 32, 85,
     115, 101, 115, 32, 91, 101, 110, 118, 95, 108, 111, 103, 103, 101, 114, 93, 40, 104, 116, 116, 112, 115, 58, 47,
     47, 103, 105, 116, 104, 117, 98, 46, 99, 111, 109, 47, 101, 110, 118, 45, 108, 111, 103, 103, 101, 114, 45, 114,
     115, 47, 101, 110, 118, 95, 108, 111, 103, 103, 101, 114, 41, 32, 97, 110, 100, 32, 91, 108, 111, 103, 93, 40,
     104, 116, 116, 112, 115, 58, 47, 47, 100, 111, 99, 115, 46, 114, 115, 47, 108, 111, 103, 41, 32, 102, 111, 114,
     32, 108, 111, 103, 103, 105, 110, 103, 46, 10, 45, 32, 42, 42, 71, 101, 110, 65, 73, 32, 67, 108, 105, 101,
     110, 116, 58, 42, 42, 32, 80, 111, 119, 101, 114, 101, 100, 32, 98, 121, 32, 116, 104, 101, 32, 71, 101, 110,
     65, 73, 32, 108, 105, 98, 114, 97, 114, 121, 32, 116, 111, 32, 112, 101, 114, 102, 111, 114, 109, 32, 116, 104,
     101, 32, 97, 99, 116, 117, 97, 108, 32, 99, 111, 100, 101, 32, 97, 110, 97, 108, 121, 115, 105, 115, 46, 10,
     10, 45, 45, 45, 10, 10, 35, 35, 32, 67, 111, 110, 116, 114, 105, 98, 117, 116, 105, 110, 103, 10, 10, 67,
     111, 110, 116, 114, 105, 98, 117, 116, 105, 111, 110, 115, 32, 97, 114, 101, 32, 119, 101, 108, 99, 111, 109, 101,
     33, 32, 80, 108, 101, 97, 115, 101, 32, 102, 101, 101, 108, 32, 102, 114, 101, 101, 32, 116, 111, 32, 111, 112,
     101, 110, 32, 105, 115, 115, 117, 101, 115, 32, 111, 114, 32, 115, 117, 98, 109, 105, 116, 32, 112, 117, 108, 108,
     32, 114, 101, 113, 117, 101, 115, 116, 115, 32, 102, 111, 114, 32, 101, 110, 104, 97, 110, 99, 101, 109, 101, 110,
     116, 115, 32, 97, 110, 100, 32, 98, 117, 103, 32, 102, 105, 120, 101, 115, 46, 10, 10, 45, 45, 45, 10, 10,
     35, 35, 32, 76, 105, 99, 101, 110, 115, 101, 10, 10, 68, 105, 115, 116, 114, 105, 98, 117, 116, 101, 100, 32,
     117, 110, 100, 101, 114, 32, 116, 104, 101, 32, 77, 73, 84, 32, 76, 105, 99, 101, 110, 115, 101, 46, 32, 83,
     101, 101, 32, 91, 76, 73, 67, 69, 78, 83, 69, 93, 40, 76, 73, 67, 69, 78, 83, 69, 41, 32, 102, 111,
     114, 32, 109, 111, 114, 101, 32, 105, 110, 102, 111, 114, 109, 97, 116, 105, 111, 110, 46, 10, 10, 45, 45, 45,
     10, 10, 35, 35, 32, 65, 99, 107, 110, 111, 119, 108, 101, 100, 103, 101, 109, 101, 110, 116, 115, 10, 10, 84,
     104, 97, 110, 107, 115, 32, 116, 111, 32, 116, 104, 101, 32, 99, 111, 110, 116, 114, 105, 98, 117, 116, 111, 114,
     115, 32, 111, 102, 32, 116, 104, 101, 32, 71, 101, 110, 65, 73, 32, 108, 105, 98, 114, 97, 114, 121, 32, 97,
     110, 100, 32, 116, 104, 101, 32, 98, 114, 111, 97, 100, 101, 114, 32, 82, 117, 115, 116, 32, 99, 111, 109, 109,
     117, 110, 105, 116, 121, 32, 102, 111, 114, 32, 116, 104, 101, 105, 114, 32, 99, 111, 110, 116, 105, 110, 117, 111,
     117, 115, 32, 115, 117, 112, 112, 111, 114, 116, 32, 97, 110, 100, 32, 105, 110, 110, 111, 118, 97, 116, 105, 111,
     110, 32, 105, 110, 32, 111, 112, 101, 110, 45, 115, 111, 117, 114, 99, 101, 32, 112, 114, 111, 106, 101, 99, 116,
     115, 46, 10, 10, 69, 110, 106, 111, 121, 32, 117, 115, 105, 110, 103, 32, 101, 95, 97, 105, 95, 115, 117, 109,
     109, 97, 114, 105, 122, 101, 32, 102, 111, 114, 32, 97, 108, 108, 32, 121, 111, 117, 114, 32, 82, 117, 115, 116,
     32, 99, 111, 100, 101, 32, 97, 110, 97, 108, 121, 115, 105, 115, 32, 97, 110, 100, 32, 99, 114, 97, 116, 101,
     32, 114, 101, 99, 114, 101, 97, 116, 105, 111, 110, 32, 110, 101, 101, 100, 115, 33, 10, 10, 42, 67, 114, 101,
     97, 116, 101, 100, 32, 98, 121, 32, 89, 111, 117, 114, 32, 68, 97, 118, 105, 100, 32, 72, 111, 114, 110, 101,
     114, 32, 97, 114, 111, 117, 110, 100, 32, 51, 47, 50, 53, 42, 10
  >>

\* -------------------------------------------------------- str operations
\* find that starts looking one position too late.
findLate(s, sub, start) ==
  LET M == {i \in (start + 1)..(Len(s) - Len(sub) + 1) :
              SubSeq(s, i, i + Len(sub) - 1) = sub}
  IN IF M = {} THEN 0 ELSE CHOOSE i \in M : \A j \in M : i <= j

\* str.find(sub, start): the lowest index >= start at which sub occurs in s,
\* or 0 when there is none (indices are 1-based here, so 0 plays Python's -1).
find(s, sub, start) ==
  LET M == {i \in start..(Len(s) - Len(sub) + 1) :
              SubSeq(s, i, i + Len(sub) - 1) = sub}
  IN IF M = {} THEN 0 ELSE CHOOSE i \in M : \A j \in M : i <= j

RECURSIVE replaceFrom(_, _, _, _)
\* replaceFrom that continues Len(new) after the start of an occurrence
\* instead of Len(old).
replaceFromSkipNew(s, old, new, start) ==
  LET i == find(s, old, start)
  IN IF i = 0
       THEN SubSeq(s, start, Len(s))
       ELSE SubSeq(s, start, i - 1) \o new
              \o replaceFrom(s, old, new, i + Len(new))

\* The scan of str.replace from index start on: copy up to the next
\* occurrence of old, emit new, continue right after the occurrence.
replaceFrom(s, old, new, start) ==
  LET i == find(s, old, start)
  IN IF i = 0
       THEN SubSeq(s, start, Len(s))
       ELSE SubSeq(s, start, i - 1) \o new
              \o replaceFrom(s, old, new, i + Len(old))

\* replace that stops after the first occurrence.
replaceFirst(s, old, new) ==
  LET i == find(s, old, 1)
  IN IF i = 0 THEN s
     ELSE SubSeq(s, 1, i - 1) \o new \o SubSeq(s, i + Len(old), Len(s))

\* str.replace(old, new) for a non-empty old.
replace(s, old, new) == replaceFrom(s, old, new, 1)

\* ------------------------------------------------------------ file system
\* README.md in the working directory: absent, or present with its content.
Absent == [exists |-> FALSE, data |-> <<>>]

Present(d) == [exists |-> TRUE, data |-> d]

\* The content of a file holding data after chunk is written at offset off;
\* a write past the end of the file leaves a gap that reads as NUL.
WriteAt(data, off, chunk) ==
  LET n == IF Len(data) > off + Len(chunk) THEN Len(data)
                                           ELSE off + Len(chunk)
  IN [i \in 1..n |-> IF i > off /\ i <= off + Len(chunk) THEN chunk[i - off]
                     ELSE IF i <= Len(data) THEN data[i]
                     ELSE 0]

\* ------------------------------------------------------------------ inputs
\* The pieces generated templates are concatenated from: the placeholder,
\* its brace characters, a backtick and a plain letter.
Pieces == {Placeholder, <<123>>, <<125>>, <<96>>, <<97>>}

RECURSIVE Templates(_)
Templates(n) ==
  IF n = 0 THEN {<<>>}
  ELSE LET T == Templates(n - 1)
       IN T \cup {t \o q : t \in T, q \in Pieces}

\* "a{{CODE}}b"
ScenarioA == <<97>> \o Placeholder \o <<98>>

\* What README.md may hold before the first run: nothing, an empty file, a
\* short file, the unrendered template, or a file longer than the document.
InitFiles(t) ==
  {Absent, Present(<<>>), Present(<<120>>), Present(t),
   Present(replace(t, Placeholder, Delim) \o <<120, 120>>)}

\* ------------------------------------------------------------------- state
Procs == {1, 2}

VARIABLES
  template,        \* the string literal of lines 1-165 (never assigned again)
  readme_content,  \* per process: the module variable readme_content
  pc,              \* per process: the statement the script is at
  handle,          \* per process: "none", "open" or "closed"
  pos,             \* per process: the file offset of the handle
  err,             \* per process: the exception being raised, or "none"
  stdout,          \* per process: the lines printed
  trace,           \* per process: the steps this run has completed
  file,            \* README.md
  start_file,      \* README.md as it was when the current run started
  hist,            \* how the earlier runs ended, oldest first
  holed            \* whether some write has left a NUL gap in README.md

vars == <<template, readme_content, pc, handle, pos, err, stdout, trace,
          file, start_file, hist, holed>>

locals == <<readme_content, pc, handle, pos, err, stdout, trace>>

\* The state when the processes in P start the script on template t with
\* README.md being f.
Start(t, P, f) ==
  /\ template = t
  /\ readme_content = [p \in Procs |-> t]
  /\ pc = [p \in Procs |-> IF p \in P THEN "replace" ELSE "off"]
  /\ handle = [p \in Procs |-> "none"]
  /\ pos = [p \in Procs |-> 0]
  /\ err = [p \in Procs |-> "none"]
  /\ stdout = [p \in Procs |-> <<>>]
  /\ trace = [p \in Procs |-> <<>>]
  /\ file = f
  /\ start_file = f
  /\ hist = <<>>
  /\ holed = FALSE

\* ----------------------------------------------------------------- actions
\* Render that also stores the rendered text in README.md.
RenderStore(p) ==
  /\ pc[p] = "replace"
  /\ readme_content' =
       [readme_content EXCEPT ![p] = replace(@, Placeholder, Delim)]
  /\ file' = Present(readme_content'[p])
  /\ pc' = [pc EXCEPT ![p] = "open"]
  /\ trace' = [trace EXCEPT ![p] = Append(@, "replace")]
  /\ UNCHANGED <<template, handle, pos, err, stdout, start_file, hist,
                 holed>>

\* Line 168: readme_content = readme_content.replace("{{CODE}}", "```")
Render(p) ==
  /\ pc[p] = "replace"
  /\ readme_content' =
       [readme_content EXCEPT ![p] = replace(@, Placeholder, Delim)]
  /\ pc' = [pc EXCEPT ![p] = "open"]
  /\ trace' = [trace EXCEPT ![p] = Append(@, "replace")]
  /\ UNCHANGED <<template, handle, pos, err, stdout, file, start_file, hist,
                 holed>>

\* Open in mode "r+": the content is kept, the offset starts at 0.
OpenNoTrunc(p) ==
  /\ pc[p] = "open"
  /\ file' = Present(file.data)
  /\ handle' = [handle EXCEPT ![p] = "open"]
  /\ pos' = [pos EXCEPT ![p] = 0]
  /\ pc' = [pc EXCEPT ![p] = "write"]
  /\ trace' = [trace EXCEPT ![p] = Append(@, "open")]
  /\ UNCHANGED <<template, readme_content, err, stdout, start_file, hist,
                 holed>>

\* Open in mode "a": the content is kept, the offset starts at its end.
OpenAppend(p) ==
  /\ pc[p] = "open"
  /\ file' = Present(file.data)
  /\ handle' = [handle EXCEPT ![p] = "open"]
  /\ pos' = [pos EXCEPT ![p] = Len(file.data)]
  /\ pc' = [pc EXCEPT ![p] = "write"]
  /\ trace' = [trace EXCEPT ![p] = Append(@, "open")]
  /\ UNCHANGED <<template, readme_content, err, stdout, start_file, hist,
                 holed>>

\* Line 171: open("README.md", "w", encoding="utf-8") succeeds; mode "w"
\* creates the file or truncates it, and the offset starts at 0.
Open(p) ==
  /\ pc[p] = "open"
  /\ file' = Present(<<>>)
  /\ handle' = [handle EXCEPT ![p] = "open"]
  /\ pos' = [pos EXCEPT ![p] = 0]
  /\ pc' = [pc EXCEPT ![p] = "write"]
  /\ trace' = [trace EXCEPT ![p] = Append(@, "open")]
  /\ UNCHANGED <<template, readme_content, err, stdout, start_file, hist,
                 holed>>

\* OpenFail that tries the open again.
OpenFailRetry(p) ==
  /\ pc[p] = "open"
  /\ Len(trace[p]) < 3
  /\ trace' = [trace EXCEPT ![p] = Append(@, "open_err")]
  /\ UNCHANGED <<template, readme_content, pc, handle, pos, err, stdout,
                 file, start_file, hist, holed>>

\* Line 171: open raises OSError; nothing in the script catches it.
OpenFail(p) ==
  /\ pc[p] = "open"
  /\ err' = [err EXCEPT ![p] = "OSError"]
  /\ pc' = [pc EXCEPT ![p] = "failed"]
  /\ trace' = [trace EXCEPT ![p] = Append(@, "open_err")]
  /\ UNCHANGED <<template, readme_content, handle, pos, stdout, file,
                 start_file, hist, holed>>

\* Write on a handle that appends: every piece goes to the end of the file.
WriteAppend(p) ==
  /\ pc[p] = "write"
  /\ LET rem == Len(readme_content[p]) - pos[p]
     IN \E n \in (IF rem = 0 THEN {0} ELSE 1..rem) :
          LET chunk == SubSeq(readme_content[p], pos[p] + 1, pos[p] + n)
          IN /\ file' = Present(file.data \o chunk)
             /\ pos' = [pos EXCEPT ![p] = @ + n]
             /\ pc' = [pc EXCEPT ![p] = IF n = rem THEN "exit" ELSE "write"]
             /\ trace' = [trace EXCEPT
                            ![p] = IF n = rem THEN Append(@, "write") ELSE @]
  /\ UNCHANGED <<template, readme_content, handle, err, stdout, start_file,
                 hist, holed>>

\* Line 172: file.write(readme_content). The text reaches the file in one
\* or more pieces, each written at the handle's offset; the statement is
\* complete when the offset has reached the end of the text.
Write(p) ==
  /\ pc[p] = "write"
  /\ LET rem == Len(readme_content[p]) - pos[p]
     IN \E n \in (IF rem = 0 THEN {0} ELSE 1..rem) :
          LET chunk == SubSeq(readme_content[p], pos[p] + 1, pos[p] + n)
          IN /\ file' = Present(WriteAt(file.data, pos[p], chunk))
             /\ holed' = (holed \/ (n > 0 /\ pos[p] > Len(file.data)))
             /\ pos' = [pos EXCEPT ![p] = @ + n]
             /\ pc' = [pc EXCEPT ![p] = IF n = rem THEN "exit" ELSE "write"]
             /\ trace' = [trace EXCEPT
                            ![p] = IF n = rem THEN Append(@, "write") ELSE @]
  /\ UNCHANGED <<template, readme_content, handle, err, stdout, start_file,
                 hist>>

\* Line 172: the write raises OSError; what was written so far stays.
WriteFail(p) ==
  /\ pc[p] = "write"
  /\ err' = [err EXCEPT ![p] = "OSError"]
  /\ pc' = [pc EXCEPT ![p] = "exc"]
  /\ trace' = [trace EXCEPT ![p] = Append(@, "write_err")]
  /\ UNCHANGED <<template, readme_content, handle, pos, stdout, file,
                 start_file, hist, holed>>

\* Lines 171-172: the with block is left normally and closes the file.
Close(p) ==
  /\ pc[p] = "exit"
  /\ handle' = [handle EXCEPT ![p] = "closed"]
  /\ pc' = [pc EXCEPT ![p] = "print"]
  /\ trace' = [trace EXCEPT ![p] = Append(@, "close")]
  /\ UNCHANGED <<template, readme_content, pos, err, stdout, file,
                 start_file, hist, holed>>

\* CloseFail whose exception is swallowed, so that the script goes on.
CloseFailSwallow(p) ==
  /\ pc[p] = "exit"
  /\ handle' = [handle EXCEPT ![p] = "closed"]
  /\ pc' = [pc EXCEPT ![p] = "print"]
  /\ trace' = [trace EXCEPT ![p] = Append(@, "close_err")]
  /\ UNCHANGED <<template, readme_content, pos, err, stdout, file,
                 start_file, hist, holed>>

\* Lines 171-172: closing raises OSError; the descriptor is released anyway.
CloseFail(p) ==
  /\ pc[p] = "exit"
  /\ handle' = [handle EXCEPT ![p] = "closed"]
  /\ err' = [err EXCEPT ![p] = "OSError"]
  /\ pc' = [pc EXCEPT ![p] = "failed"]
  /\ trace' = [trace EXCEPT ![p] = Append(@, "close_err")]
  /\ UNCHANGED <<template, readme_content, pos, stdout, file, start_file,
                 hist, holed>>

\* ExitExc without the with block: nothing closes the file.
ExitExcLeak(p) ==
  /\ pc[p] = "exc"
  /\ pc' = [pc EXCEPT ![p] = "failed"]
  /\ trace' = [trace EXCEPT ![p] = Append(@, "exit")]
  /\ UNCHANGED <<template, readme_content, handle, pos, err, stdout, file,
                 start_file, hist, holed>>

\* Lines 171-172: the with block is left by the exception of the write; the
\* file is closed and the exception goes on to end the script.
ExitExc(p) ==
  /\ pc[p] = "exc"
  /\ handle' = [handle EXCEPT ![p] = "closed"]
  /\ pc' = [pc EXCEPT ![p] = "failed"]
  /\ trace' = [trace EXCEPT ![p] = Append(@, "exit")]
  /\ UNCHANGED <<template, readme_content, pos, err, stdout, file,
                 start_file, hist, holed>>

\* Line 174: print("README.md has been written successfully.")
PrintOk(p) ==
  /\ pc[p] = "print"
  /\ stdout' = [stdout EXCEPT ![p] = Append(@, Msg)]
  /\ pc' = [pc EXCEPT ![p] = "done"]
  /\ trace' = [trace EXCEPT ![p] = Append(@, "print")]
  /\ UNCHANGED <<template, readme_content, handle, pos, err, file,
                 start_file, hist, holed>>

\* The script is run again after it has ended: a new process, the module
\* body from line 1, the same README.md.
Rerun(p) ==
  /\ pc[p] \in {"done", "failed"}
  /\ Len(hist) + 1 < MaxRuns
  /\ hist' = Append(hist, pc[p])
  /\ start_file' = file
  /\ readme_content' = [readme_content EXCEPT ![p] = template]
  /\ pc' = [pc EXCEPT ![p] = "replace"]
  /\ handle' = [handle EXCEPT ![p] = "none"]
  /\ pos' = [pos EXCEPT ![p] = 0]
  /\ err' = [err EXCEPT ![p] = "none"]
  /\ stdout' = [stdout EXCEPT ![p] = <<>>]
  /\ trace' = [trace EXCEPT ![p] = <<>>]
  /\ UNCHANGED <<template, file, holed>>

\* ---------------------------------------------------------- specifications
\* One process, run up to MaxRuns times in a row.
Init == \E t \in Templates(MaxPieces) : \E f \in InitFiles(t) :
          Start(t, {1}, f)

Next ==
  \E p \in Procs :
    \/ Render(p)
    \/ Open(p)
    \/ OpenFail(p)
    \/ Write(p)
    \/ WriteFail(p)
    \/ Close(p)
    \/ CloseFail(p)
    \/ ExitExc(p)
    \/ PrintOk(p)
    \/ Rerun(p)

Spec == Init /\ [][Next]_vars

\* The render step alone, on the generated templates, on "a{{CODE}}b" and on
\* the template the script ships.
InitRender ==
  \E t \in Templates(MaxPiecesR) \cup {ScenarioA, ShippedTemplate} :
    Start(t, {1}, Absent)

NextRender == Render(1)

SpecRender == InitRender /\ [][NextRender]_vars

\* Two processes run the script once each, at the same time.
InitConc == \E t \in Templates(MaxPiecesC) :
              \E f \in {Absent, Present(t)} : Start(t, Procs, f)

NextConc ==
  \E p \in Procs :
    \/ Render(p)
    \/ Open(p)
    \/ OpenFail(p)
    \/ Write(p)
    \/ WriteFail(p)
    \/ Close(p)
    \/ CloseFail(p)
    \/ ExitExc(p)
    \/ PrintOk(p)

SpecConc == InitConc /\ [][NextConc]_vars

\* ------------------------------------------------- what the claims speak of
\* The positions at which sub occurs in s.
Matches(s, sub) ==
  {i \in 1..(Len(s) - Len(sub) + 1) : SubSeq(s, i, i + Len(sub) - 1) = sub}

RECURSIVE Greedy(_, _, _)
\* How many of the positions M are taken when they are taken left to right,
\* each one blocking the w - 1 positions after it.
Greedy(M, w, from) ==
  LET N == {i \in M : i >= from}
  IN IF N = {} THEN 0
     ELSE 1 + Greedy(M, w, (CHOOSE i \in N : \A j \in N : i <= j) + w)

\* The number of non-overlapping occurrences of sub in s.
NumOcc(s, sub) == Greedy(Matches(s, sub), Len(sub), 1)

RECURSIVE Pick(_, _, _, _)
\* The text for positions lo..hi of t when O are the placeholder positions:
\* a placeholder's first position gives the delimiter, its other positions
\* give nothing, every other position gives its own character.
Pick(t, O, lo, hi) ==
  IF lo > hi THEN <<>>
  ELSE IF lo = hi
    THEN IF lo \in O THEN Delim
         ELSE IF \E i \in O : i < lo /\ lo < i + Len(Placeholder) THEN <<>>
         ELSE <<t[lo]>>
  ELSE LET mid == (lo + hi) \div 2
       IN Pick(t, O, lo, mid) \o Pick(t, O, mid + 1, hi)

\* The rendered document of the spec: template t with every placeholder
\* occurrence replaced by the delimiter and everything else kept.
Expected(t) == Pick(t, Matches(t, Placeholder), 1, Len(t))

\* No backtick of t stands directly before or after a placeholder.
NoTickBesidePlaceholder(t) ==
  \A i \in Matches(t, Placeholder) :
    /\ i > 1 => t[i - 1] # 96
    /\ i + Len(Placeholder) <= Len(t) => t[i + Len(Placeholder)] # 96

Rendered(p) == pc[p] # "replace" /\ pc[p] # "off"

RenderStep == pc[1] = "replace" /\ pc'[1] = "open"

Ended(p) == pc[p] \in {"done", "failed"}

\* ------------------------------------------------------------------ claims
\* C1: once the render step has run, readme_content is the template with
\* every placeholder occurrence (they never overlap) replaced by the
\* delimiter and every other character kept in order, no placeholder is left
\* in it, and "a{{CODE}}b" has become "a```b".
C1_RenderReplacesAll ==
  Rendered(1) =>
    /\ \A i, j \in Matches(template, Placeholder) :
         i < j => i + Len(Placeholder) <= j
    /\ readme_content[1] = Expected(template)
    /\ Matches(readme_content[1], Placeholder) = {}
    /\ template = ScenarioA => readme_content[1] = <<97, 96, 96, 96, 98>>

C1_Witness ==
  /\ Rendered(1)
  /\ Cardinality(Matches(template, Placeholder)) >= 2
  /\ \E i \in 1..Len(readme_content[1]) : readme_content[1][i] # 96

\* C2: after a run whose write and close succeeded, README.md exists and
\* holds exactly the rendered document, whatever it held before the run.
C2_FileIsRendered ==
  pc[1] \in {"print", "done"} => file = Present(Expected(template))

C2_Witness ==
  /\ pc[1] = "done"
  /\ hist = <<>>
  /\ start_file.exists
  /\ Len(start_file.data) > Len(file.data)
  /\ Matches(template, Placeholder) # {}

\* C3: the confirmation line is printed only after replace, open, the full
\* write and close have all happened without error, in that order, and a
\* run in which an error was raised prints nothing.
C3_MessageOnlyAfterSuccess ==
  /\ stdout[1] # <<>> =>
       /\ stdout[1] = <<Msg>>
       /\ trace[1] = <<"replace", "open", "write", "close", "print">>
       /\ err[1] = "none"
       /\ handle[1] = "closed"
       /\ pos[1] = Len(readme_content[1])
       /\ file = Present(readme_content[1])
  /\ (err[1] # "none" \/ pc[1] = "failed") => stdout[1] = <<>>

C3_Witness ==
  /\ stdout[1] = <<Msg>>
  /\ hist # <<>>
  /\ hist[Len(hist)] = "failed"

\* C4: a run whose open or write failed ends failed with the OSError, after
\* exactly one open attempt, with nothing printed and with README.md left as
\* the failure left it (untouched if the open failed, the partial text if
\* the write failed); once raised, the error is never caught.
C4_ErrorPropagates ==
  /\ err[1] # "none" => err[1] = "OSError" /\ pc[1] \in {"exc", "failed"}
  /\ pc[1] = "failed" =>
       /\ err[1] = "OSError"
       /\ stdout[1] = <<>>
       /\ Cardinality({i \in 1..Len(trace[1]) :
                         trace[1][i] \in {"open", "open_err"}}) = 1
       /\ trace[1][Len(trace[1])] = "open_err" => file = start_file
       /\ trace[1][Len(trace[1])] = "exit" =>
            file = Present(SubSeq(readme_content[1], 1, pos[1]))

C4_Witness ==
  /\ pc[1] = "failed"
  /\ trace[1] = <<"replace", "open", "write_err", "exit">>
  /\ pos[1] > 0
  /\ pos[1] < Len(readme_content[1])
  /\ file # start_file

\* C5: the handle is open only inside the with block; it is closed when the
\* script prints, when it has ended normally and when it has failed after a
\* successful open.
C5_HandleReleased ==
  /\ handle[1] = "open" => pc[1] \in {"write", "exit", "exc"}
  /\ pc[1] \in {"print", "done", "failed"} =>
       handle[1] = (IF trace[1][2] = "open" THEN "closed" ELSE "none")

C5_Witness ==
  /\ pc[1] = "failed"
  /\ handle[1] = "closed"
  /\ trace[1][Len(trace[1])] = "exit"

\* C6: a successful run that follows another run leaves README.md holding
\* exactly the rendered document; if the run before it was successful too,
\* README.md is as that run left it.
C6_Idempotent ==
  (pc[1] = "done" /\ hist # <<>>) =>
    /\ file = Present(Expected(template))
    /\ hist[Len(hist)] = "done" => file = start_file

C6_Witness ==
  /\ pc[1] = "done"
  /\ hist = <<"failed", "done">>
  /\ file = start_file
  /\ file.data # <<>>

\* C7: the rendered document is as long as the template plus
\* (len(delimiter) - len(placeholder)), which is -5, for each non-overlapping
\* placeholder occurrence in the template.
C7_Length ==
  Rendered(1) =>
    /\ Len(Delim) - Len(Placeholder) = -5
    /\ Len(readme_content[1]) =
         Len(template) + (Len(Delim) - Len(Placeholder))
                           * NumOcc(template, Placeholder)

C7_Witness ==
  /\ Rendered(1)
  /\ NumOcc(template, Placeholder) = 2
  /\ Len(readme_content[1]) = Len(template) - 10

C10_ConcurrentSameContent ==
  (pc[1] \in {"print", "done"} /\ pc[2] \in {"print", "done"}) =>
    file = Present(Expected(template))

C10_Witness ==
  /\ pc[1] = "done"
  /\ pc[2] = "done"
  /\ holed
  /\ Len(file.data) > 3
====
